---- MODULE Spec2Model ----
(***************************************************************************)
(* Model of the survey rendering engine of src/main.rs: the Renderable    *)
(* implementations of Form, QuestionSet, Question and QuestionType.        *)
(*                                                                         *)
(* A rendered String is modelled as the sequence of the pieces the         *)
(* format! templates emit: one record per HTML element (with its           *)
(* attributes) and one "raw" record per literal piece of markup or         *)
(* separator.  Attribute values are real strings, built by concatenation   *)
(* and decimal formatting as the code builds them.                         *)
(***************************************************************************)
EXTENDS Integers, Sequences, FiniteSets, TLC

VARIABLES form, prefix, html, pc,
          qt, qtB, frag, fragB, qpc, qpcB,
          iter, lo, hi, emitted, rpc

vars == <<form, prefix, html, pc, qt, qtB, frag, fragB, qpc, qpcB,
          iter, lo, hi, emitted, rpc>>

formVars == <<form, prefix, html, pc>>
questionVars == <<qt, qtB, frag, fragB, qpc, qpcB>>
rangeVars == <<iter, lo, hi, emitted, rpc>>

(***************************************************************************)
(* Bounds of the model.                                                    *)
(***************************************************************************)
MaxGroups == 2
MaxQuestions == 2
MaxAnswers == 2
MaxVal == 1
MaxDescs == 2
MaxIndex == 11
EdgeWidth == 1

(***************************************************************************)
(* i8: the type of the DiscreteNumeric bounds and of the mapping's keys.   *)
(***************************************************************************)
I8Min == -128
I8Max == 127
I8Wrap(n) == ((n + 128) % 256) - 128

(***************************************************************************)
(* Display of integers: decimal digits, most significant first, with a     *)
(* leading minus sign for negative values.                                 *)
(***************************************************************************)
Digit(d) ==
  CASE d = 0 -> "0" [] d = 1 -> "1" [] d = 2 -> "2" [] d = 3 -> "3"
    [] d = 4 -> "4" [] d = 5 -> "5" [] d = 6 -> "6" [] d = 7 -> "7"
    [] d = 8 -> "8" [] d = 9 -> "9"

DecLastDigit(n) == Digit(n % 10)

RECURSIVE Dec(_)
Dec(n) == IF n < 10 THEN Digit(n) ELSE Dec(n \div 10) \o Digit(n % 10)

IntStr(v) == IF v < 0 THEN "-" \o Dec(-v) ELSE Dec(v)

(***************************************************************************)
(* The identifier scheme: format!("{prefix}-{idx}").                       *)
(***************************************************************************)
ChildId(p, idx) == p \o "-" \o Dec(idx)

(***************************************************************************)
(* Pieces of markup.                                                       *)
(***************************************************************************)
Blank == [tag |-> "", type |-> "", name |-> "", id |-> "", value |-> "",
          for |-> "", text |-> "", target |-> "", min |-> "", max |-> ""]

Raw(s) == [Blank EXCEPT !.tag = "raw", !.text = s]
Elem(t, s) == [Blank EXCEPT !.tag = t, !.text = s]
Label(f, s) == [Blank EXCEPT !.tag = "label", !.for = f, !.text = s]
Input(ty, nm, i, v) ==
  [Blank EXCEPT !.tag = "input", !.type = ty, !.name = nm, !.id = i, !.value = v]

(***************************************************************************)
(* itertools join: the fragments in order, sep between consecutive ones.   *)
(***************************************************************************)
RECURSIVE JoinTrailing(_, _)
JoinTrailing(frags, sep) ==
  IF Len(frags) = 0 THEN <<>>
  ELSE Head(frags) \o sep \o JoinTrailing(Tail(frags), sep)

RECURSIVE Join(_, _)
Join(frags, sep) ==
  IF Len(frags) = 0 THEN <<>>
  ELSE IF Len(frags) = 1 THEN Head(frags)
  ELSE Head(frags) \o sep \o Join(Tail(frags), sep)

(***************************************************************************)
(* HashMap<i8, String>: entries in an arbitrary storage order, keys        *)
(* unique.  get(&key) finds the entry of the key wherever it is stored.    *)
(***************************************************************************)
None == [some |-> FALSE, v |-> ""]
Some(x) == [some |-> TRUE, v |-> x]

GetFirstSlot(m, k) ==
  IF Len(m) > 0 /\ m[1][1] = k THEN Some(m[1][2]) ELSE None

Get(m, k) ==
  IF \E i \in 1..Len(m) : m[i][1] = k
  THEN Some(m[CHOOSE i \in 1..Len(m) : m[i][1] = k][2])
  ELSE None

(***************************************************************************)
(* RangeInclusive<i8>, min..=max.  next() yields start and advances       *)
(* while start < end, yields end once and marks the range exhausted, and   *)
(* yields nothing afterwards or when start > end.                          *)
(***************************************************************************)
RangeInclusive(min, max) == [start |-> min, end |-> max, exhausted |-> FALSE]

RangeNextExclusive(it) ==
  IF it.start < it.end
  THEN [it |-> [it EXCEPT !.start = I8Wrap(it.start + 1)],
        some |-> TRUE, item |-> it.start]
  ELSE [it |-> it, some |-> FALSE, item |-> 0]

RangeNextWrapping(it) ==
  IF it.start <= it.end
  THEN [it |-> [it EXCEPT !.start = I8Wrap(it.start + 1)],
        some |-> TRUE, item |-> it.start]
  ELSE [it |-> it, some |-> FALSE, item |-> 0]

RangeNext(it) ==
  IF it.exhausted \/ ~(it.start <= it.end)
  THEN [it |-> it, some |-> FALSE, item |-> 0]
  ELSE IF it.start < it.end
       THEN [it |-> [it EXCEPT !.start = I8Wrap(it.start + 1)],
             some |-> TRUE, item |-> it.start]
       ELSE [it |-> [it EXCEPT !.exhausted = TRUE],
             some |-> TRUE, item |-> it.start]

RECURSIVE RangeCollect(_)
RangeCollect(it) ==
  LET r == RangeNext(it)
  IN IF r.some THEN <<r.item>> \o RangeCollect(r.it) ELSE <<>>

(***************************************************************************)
(* impl Renderable for QuestionType                                        *)
(***************************************************************************)
Stringified(num_descriptions, val) ==
  LET d == Get(num_descriptions, val)
  IN IF d.some THEN IntStr(val) \o " (" \o d.v \o ")" ELSE IntStr(val)

DiscreteOption(id, num_descriptions, val) ==
  << Input("radio", id, id \o "-" \o IntStr(val), IntStr(val)),
     Label(id \o "-" \o IntStr(val), Stringified(num_descriptions, val)) >>

DiscreteNumericRender(q, id) ==
  LET vals == RangeCollect(RangeInclusive(q.bounds[1], q.bounds[2]))
  IN Join([k \in 1..Len(vals) |-> DiscreteOption(id, q.num_descriptions, vals[k])],
          <<Raw("\n")>>)

CustomStringOwnName(ty, id) ==
  << Raw("\n"),
     Input(ty, id \o "-c", id \o "-c", ""),
     [Input("text", "", id \o "-t", "") EXCEPT !.target = id \o "-c"] >>

CustomStringTargetsQuestion(ty, id) ==
  << Raw("\n"),
     Input(ty, id, id \o "-c", ""),
     [Input("text", "", id \o "-t", "") EXCEPT !.target = id] >>

CustomString(ty, id) ==
  << Raw("\n"),
     Input(ty, id, id \o "-c", ""),
     [Input("text", "", id \o "-t", "") EXCEPT !.target = id \o "-c"] >>

ChoiceOptionByValue(ty, id, idx, val) ==
  << Input(ty, id, id \o "-" \o val, val),
     Label(id \o "-" \o val, val) >>

ChoiceOption(ty, id, idx, val) ==
  << Input(ty, id, id \o "-" \o Dec(idx), val),
     Label(id \o "-" \o Dec(idx), val) >>

ChoiceRenderAlwaysCustom(ty, q, id) ==
  Join([k \in 1..Len(q.answers) |-> ChoiceOption(ty, id, k - 1, q.answers[k])],
       <<Raw("\n")>>)
  \o CustomString(ty, id)

ChoiceRender(ty, q, id) ==
  Join([k \in 1..Len(q.answers) |-> ChoiceOption(ty, id, k - 1, q.answers[k])],
       <<Raw("\n")>>)
  \o (IF q.custom_answer THEN CustomString(ty, id) ELSE <<>>)

QuestionTypeRender(q, id) ==
  CASE q.type = "text" ->
         IF q.is_long
         THEN << [Blank EXCEPT !.tag = "textarea", !.id = id] >>
         ELSE << Input("text", "", id, "") >>
    [] q.type = "continous_numeric" ->
         IF q.cbounds # <<>>
         THEN << [Input("range", "", id, "") EXCEPT
                    !.min = IntStr(q.cbounds[1]), !.max = IntStr(q.cbounds[2])] >>
         ELSE << Input("number", "", id, "") >>
    [] q.type = "discrete_numeric" -> DiscreteNumericRender(q, id)
    [] q.type = "single_choice" -> ChoiceRender("radio", q, id)
    [] q.type = "multiple_choice" -> ChoiceRender("checkbox", q, id)

(***************************************************************************)
(* impl Renderable for Question, QuestionSet and Form                      *)
(***************************************************************************)
QuestionRender(q, id) ==
  << Elem("h3", q.title) >> \o QuestionTypeRender(q.spec, id)

QuestionSetContent(g, id) ==
  Join([k \in 1..Len(g.questions) |->
          QuestionRender(g.questions[k], ChildId(id, k - 1))],
       <<Raw("\n</br>\n")>>)

QuestionSetRender(g, id) ==
  << Elem("h2", g.title), Elem("p", g.description), Raw("<form>") >>
  \o QuestionSetContent(g, id)
  \o << Raw("</form>") >>

FormContent(f, id) ==
  Join([k \in 1..Len(f.groups) |->
          QuestionSetRender(f.groups[k], ChildId(id, k - 1))],
       <<Raw("\n")>>)

FormRender(f, id) ==
  << Raw("<html style=\"font-family=sans-serif\"><body>"),
     Elem("h1", f.title), Elem("p", f.description),
     Raw("<div class=\"content\"><pre>") >>
  \o FormContent(f, id)
  \o << Raw("</pre></div></body></html>") >>

(***************************************************************************)
(* The specification model: QuestionType, Question, QuestionSet, Form.     *)
(* Every QuestionType value carries all fields; those its variant does not *)
(* have keep a default.  cbounds = <<>> is bounds: None; the f32 bounds of  *)
(* Some((min, max)) are whole numbers, which Display prints as integers.   *)
(***************************************************************************)
QBlank == [type |-> "", bounds |-> <<0, 0>>, num_descriptions |-> <<>>,
           cbounds |-> <<>>, answers |-> <<>>, custom_answer |-> FALSE,
           is_long |-> FALSE]

Text(is_long) == [QBlank EXCEPT !.type = "text", !.is_long = is_long]
ContinousNumeric(b) == [QBlank EXCEPT !.type = "continous_numeric", !.cbounds = b]
DiscreteNumeric(b, d) ==
  [QBlank EXCEPT !.type = "discrete_numeric", !.bounds = b, !.num_descriptions = d]
SingleChoice(a, c) ==
  [QBlank EXCEPT !.type = "single_choice", !.answers = a, !.custom_answer = c]
MultipleChoice(a, c) ==
  [QBlank EXCEPT !.type = "multiple_choice", !.answers = a, !.custom_answer = c]

Question(title, spec) == [title |-> title, spec |-> spec]
QuestionSet(title, description, questions) ==
  [title |-> title, description |-> description, questions |-> questions]
Form(title, description, groups) ==
  [title |-> title, description |-> description, groups |-> groups]

(***************************************************************************)
(* The form built by run().                                                *)
(***************************************************************************)
SampleDiscrete ==
  DiscreteNumeric(<<1, 10>>, << <<1, "NOPE!">>, <<10, "YESSSSH!!!!">> >>)
SampleAnswers == <<"Pizza", "Ravioli", "MAOAM">>

SampleQuestions ==
  << Question("Why would you do this?", Text(TRUE)),
     Question("How much is the fish?", ContinousNumeric(<<>>)),
     Question("What do you want?", SampleDiscrete),
     Question("What do you want?", SingleChoice(SampleAnswers, TRUE)),
     Question("What do you want?", MultipleChoice(SampleAnswers, TRUE)) >>

SampleForm ==
  Form("This is Survey speaking!", "Hello, I am survey.",
       << QuestionSet("Set 1", "", SampleQuestions) >>)

(***************************************************************************)
(* Inputs of the render calls.                                             *)
(***************************************************************************)
SeqsUpTo(S, n) == UNION {[1..k -> S] : k \in 0..n}
Range(s) == {s[i] : i \in 1..Len(s)}

RootIds == {"i", "i-2"}
DVals == (-MaxVal)..MaxVal
DescOf(k) == IF k < 0 THEN "NOPE!" ELSE "YESSSSH!!!!"
AnswerStrings == {"Pizza", "Ravioli"}

Storages ==
  {s \in SeqsUpTo({<<k, DescOf(k)>> : k \in DVals}, MaxDescs) :
     \A i, j \in 1..Len(s) : i # j => s[i][1] # s[j][1]}

Reorderings(m) == {s \in [1..Len(m) -> Range(m)] : Range(s) = Range(m)}

AnswerSeqs == SeqsUpTo(AnswerStrings, MaxAnswers)

QuestionTypes ==
  {Text(b) : b \in BOOLEAN}
  \cup {ContinousNumeric(b) : b \in {<<>>, <<0, 1>>}}
  \cup {DiscreteNumeric(b, d) : b \in DVals \X DVals, d \in Storages}
  \cup {SingleChoice(a, c) : a \in AnswerSeqs, c \in BOOLEAN}
  \cup {MultipleChoice(a, c) : a \in AnswerSeqs, c \in BOOLEAN}
  \cup {SampleQuestions[k].spec : k \in 1..Len(SampleQuestions)}

SameAnswers == [k \in 1..MaxAnswers |-> "Pizza"]

(***************************************************************************)
(* The forms rendered: every shape (number of groups, number of questions  *)
(* of each group), the type of the question at document position o being   *)
(* FormTypeSeq[(shift + stride * o) mod its length], for every shift and   *)
(* stride, so that every two positions meet every two types; and the       *)
(* sample form.                                                            *)
(***************************************************************************)
FormTypeSeq ==
  << Text(FALSE),
     DiscreteNumeric(<<-MaxVal, MaxVal>>, <<>>),
     SingleChoice(SameAnswers, TRUE),
     MultipleChoice(SameAnswers, TRUE),
     Text(TRUE),
     ContinousNumeric(<<>>),
     SingleChoice(SameAnswers, FALSE) >>

Shapes == SeqsUpTo(0..MaxQuestions, MaxGroups)

RECURSIVE Before(_, _)
Before(shape, g) == IF g = 1 THEN 0 ELSE Before(shape, g - 1) + shape[g - 1]

TypeAt(shift, stride, o) ==
  FormTypeSeq[((shift + stride * o) % Len(FormTypeSeq)) + 1]

MakeForm(shape, shift, stride) ==
  Form("Survey", "Hello",
       [g \in 1..Len(shape) |->
          QuestionSet("Set", "",
            [q \in 1..shape[g] |->
               Question("What?",
                        TypeAt(shift, stride, Before(shape, g) + q - 1))])])

Forms ==
  {MakeForm(shape, shift, stride) :
     shape \in Shapes,
     shift \in 0..(Len(FormTypeSeq) - 1),
     stride \in 0..(Len(FormTypeSeq) - 1)}
  \cup {SampleForm}

(***************************************************************************)
(* Structural equality of two QuestionType values: the mapping is compared *)
(* as a mapping, whatever the order its entries are stored in.             *)
(***************************************************************************)
StructEq(a, b) ==
  /\ [a EXCEPT !.num_descriptions = <<>>] = [b EXCEPT !.num_descriptions = <<>>]
  /\ Range(a.num_descriptions) = Range(b.num_descriptions)

(***************************************************************************)
(* Spec: Form::render(prefix) on a constructed form.                       *)
(***************************************************************************)
FormIdle == form = Form("", "", <<>>) /\ html = <<>> /\ pc = "idle"
QuestionIdle ==
  /\ qt = QBlank /\ qtB = QBlank /\ frag = <<>> /\ fragB = <<>>
  /\ qpc = "idle" /\ qpcB = "idle"
RangeIdle ==
  /\ lo = 0 /\ hi = 0 /\ iter = RangeInclusive(0, 0) /\ emitted = <<>>
  /\ rpc = "idle"

Init ==
  /\ prefix \in RootIds
  /\ form \in Forms
  /\ html = <<>>
  /\ pc = "ready"
  /\ QuestionIdle
  /\ RangeIdle

RenderForm ==
  /\ pc = "ready"
  /\ html' = FormRender(form, prefix)
  /\ pc' = "done"
  /\ UNCHANGED <<form, prefix, questionVars, rangeVars>>

Next == RenderForm

Spec == Init /\ [][Next]_vars

(***************************************************************************)
(* SpecQ: QuestionType::render(id), called twice on structurally equal     *)
(* values whose mappings may be stored in different orders.                *)
(***************************************************************************)
InitQ ==
  /\ prefix \in RootIds
  /\ qt \in QuestionTypes
  /\ qtB \in {[qt EXCEPT !.num_descriptions = m] :
                m \in Reorderings(qt.num_descriptions)}
  /\ frag = <<>> /\ fragB = <<>>
  /\ qpc = "ready" /\ qpcB = "ready"
  /\ FormIdle
  /\ RangeIdle

RenderQuestionType ==
  /\ qpc = "ready"
  /\ frag' = QuestionTypeRender(qt, prefix)
  /\ qpc' = "done"
  /\ UNCHANGED <<qt, qtB, fragB, qpcB, prefix, form, html, pc, rangeVars>>

RenderQuestionTypeB ==
  /\ qpcB = "ready"
  /\ fragB' = QuestionTypeRender(qtB, prefix)
  /\ qpcB' = "done"
  /\ UNCHANGED <<qt, qtB, frag, qpc, prefix, form, html, pc, rangeVars>>

NextQ == RenderQuestionType \/ RenderQuestionTypeB

SpecQ == InitQ /\ [][NextQ]_vars

(***************************************************************************)
(* SpecRange: the enumeration of the DiscreteNumeric arm, one next() of    *)
(* the range per step, over bounds at the ends and the middle of i8.       *)
(***************************************************************************)
RangeEnds ==
  (I8Min..(I8Min + EdgeWidth)) \cup ((-EdgeWidth)..EdgeWidth)
  \cup ((I8Max - EdgeWidth)..I8Max)

InitRange ==
  /\ lo \in RangeEnds
  /\ hi \in RangeEnds
  /\ iter = RangeInclusive(lo, hi)
  /\ emitted = <<>>
  /\ rpc = "iterating"
  /\ prefix = "i"
  /\ FormIdle
  /\ QuestionIdle

DiscreteNext ==
  /\ rpc = "iterating"
  /\ RangeNext(iter).some
  /\ emitted' = Append(emitted, RangeNext(iter).item)
  /\ iter' = RangeNext(iter).it
  /\ UNCHANGED <<lo, hi, rpc, prefix, formVars, questionVars>>

DiscreteEnd ==
  /\ rpc = "iterating"
  /\ ~RangeNext(iter).some
  /\ rpc' = "done"
  /\ UNCHANGED <<lo, hi, iter, emitted, prefix, formVars, questionVars>>

NextRange == DiscreteNext \/ DiscreteEnd

SpecRange == InitRange /\ [][NextRange]_vars

(***************************************************************************)
(* Reading a rendered document: the elements that carry an id, the radio   *)
(* and checkbox inputs, and the fragment of each question (the pieces      *)
(* between its <h3> heading and the next heading, question separator or    *)
(* end of the group's <form>).                                             *)
(***************************************************************************)
IsIdElem(t) == t.tag \in {"input", "textarea"}
IsInput(t) == t.tag = "input"
IsLabel(t) == t.tag = "label"
IsGroupInput(t) == t.tag = "input" /\ t.type \in {"radio", "checkbox"}
IsBoundary(t) ==
  t.tag = "h3" \/ (t.tag = "raw" /\ t.text \in {"\n</br>\n", "</form>"})

IdElems(s) == SelectSeq(s, IsIdElem)

Positions(f) ==
  UNION {{<<g, q>> : q \in 1..Len(f.groups[g].questions)} : g \in 1..Len(f.groups)}

Ordinal(f, p) ==
  Cardinality({x \in Positions(f) : x[1] < p[1] \/ (x[1] = p[1] /\ x[2] <= p[2])})

H3Positions(s) == {i \in 1..Len(s) : s[i].tag = "h3"}

NthH3(s, n) ==
  CHOOSE i \in H3Positions(s) : Cardinality({x \in H3Positions(s) : x < i}) = n - 1

FragmentAt(s, i) ==
  LET e == CHOOSE j \in (i + 1)..Len(s) :
             IsBoundary(s[j]) /\ \A m \in (i + 1)..(j - 1) : ~IsBoundary(s[m])
  IN SubSeq(s, i + 1, e - 1)

QuestionFragment(p) == FragmentAt(html, NthH3(html, Ordinal(form, p)))

SpecAt(p) == form.groups[p[1]].questions[p[2]].spec
QId(p) == prefix \o "-" \o Dec(p[1] - 1) \o "-" \o Dec(p[2] - 1)
IsChoice(q) == q.type \in {"single_choice", "multiple_choice"}

\* C1: in a rendered document no two elements carry the same id attribute
\* value, whatever the groups, the questions and their types.
C1_UniqueIds ==
  pc = "done" =>
    LET els == IdElems(html)
    IN \A i, j \in 1..Len(els) : i # j => els[i].id # els[j].id

C1_Witness ==
  /\ pc = "done"
  /\ Len(form.groups) = 2
  /\ \A g \in 1..2 : Len(form.groups[g].questions) = 2
  /\ \E p \in Positions(form) : SpecAt(p).type = "discrete_numeric"
  /\ \E p \in Positions(form) : IsChoice(SpecAt(p)) /\ SpecAt(p).custom_answer
  /\ \E p \in Positions(form) : SpecAt(p).type = "text"

(***************************************************************************)
(* The label the claim gives a value: "v (d)" when the mapping has an      *)
(* entry d for v, and v otherwise.                                         *)
(***************************************************************************)
ExpectedLabel(m, v) ==
  IF \E e \in Range(m) : e[1] = v
  THEN IntStr(v) \o " (" \o (CHOOSE e \in Range(m) : e[1] = v)[2] \o ")"
  ELSE IntStr(v)

\* C2: a DiscreteNumeric with min <= max renders max - min + 1 radio options,
\* one per value of [min, max] in ascending order, the label of value v being
\* "v (d)" when the mapping has d for v and the bare v otherwise; the sample
\* (1,10) question renders 10 options labelled "1 (NOPE!)", ..., "5", ...,
\* "10 (YESSSSH!!!!)".
C2_DiscreteOptions ==
  (qpc = "done" /\ qt.type = "discrete_numeric" /\ qt.bounds[1] <= qt.bounds[2]) =>
    LET min == qt.bounds[1]
        max == qt.bounds[2]
        ins == SelectSeq(frag, IsInput)
        labs == SelectSeq(frag, IsLabel)
    IN /\ Len(ins) = max - min + 1
       /\ Len(labs) = max - min + 1
       /\ \A k \in 1..Len(ins) :
            /\ ins[k].type = "radio"
            /\ ins[k].value = IntStr(min + k - 1)
            /\ labs[k].text = ExpectedLabel(qt.num_descriptions, min + k - 1)
       /\ qt = SampleDiscrete =>
            /\ Len(labs) = 10
            /\ labs[1].text = "1 (NOPE!)"
            /\ labs[5].text = "5"
            /\ labs[10].text = "10 (YESSSSH!!!!)"

C2_Witness ==
  /\ qpc = "done"
  /\ qt.type = "discrete_numeric"
  /\ qt.bounds = <<-MaxVal, MaxVal>>
  /\ Len(qt.num_descriptions) = 2
  /\ Len(SelectSeq(frag, IsInput)) = 2 * MaxVal + 1

\* C3: a SingleChoice or MultipleChoice renders len(answers) option inputs in
\* answer order, the option at index k with id "<id>-k"; custom_answer = true
\* appends exactly one extra input and text field after them, and
\* custom_answer = false appends nothing; also for no answers at all.
C3_ChoiceOptions ==
  (qpc = "done" /\ IsChoice(qt)) =>
    LET n == Len(qt.answers)
        ty == IF qt.type = "single_choice" THEN "radio" ELSE "checkbox"
        ins == SelectSeq(frag, IsInput)
    IN /\ Len(ins) = n + (IF qt.custom_answer THEN 2 ELSE 0)
       /\ Len(SelectSeq(frag, IsLabel)) = n
       /\ \A k \in 1..n :
            /\ ins[k].type = ty
            /\ ins[k].id = prefix \o "-" \o Dec(k - 1)
            /\ ins[k].value = qt.answers[k]
       /\ \A j, k \in 1..Len(ins) : j # k => ins[j].id # ins[k].id
       /\ qt.custom_answer =>
            /\ ins[n + 1] = frag[Len(frag) - 1]
            /\ ins[n + 2] = frag[Len(frag)]
            /\ ins[n + 1].type = ty
            /\ ins[n + 1].id = prefix \o "-c"
            /\ ins[n + 2].type = "text"
            /\ ins[n + 2].id = prefix \o "-t"

C3_Witness ==
  /\ qpc = "done"
  /\ qt.type = "single_choice"
  /\ qt.custom_answer
  /\ Len(qt.answers) = 2
  /\ qt.answers[1] = qt.answers[2]
  /\ Len(SelectSeq(frag, IsInput)) = 4

(***************************************************************************)
(* A DiscreteNumeric that breaks the invariants of the data model.         *)
(***************************************************************************)
Malformed(q) ==
  /\ q.type = "discrete_numeric"
  /\ \/ q.bounds[1] > q.bounds[2]
     \/ \E e \in Range(q.num_descriptions) :
          e[1] < q.bounds[1] \/ e[1] > q.bounds[2]

\* C4: rendering never returns markup for a malformed DiscreteNumeric
\* (min > max, or a mapping key outside [min, max]).
C4_MalformedNeverRenders == ~(qpc = "done" /\ Malformed(qt))

\* C5: every option and custom input of a choice question at group g,
\* question q carries the grouping name "r-g-q", is a radio for SingleChoice
\* and a checkbox for MultipleChoice, and no two questions share a name.
C5_GroupingNames ==
  pc = "done" =>
    /\ \A p \in Positions(form) :
         IsChoice(SpecAt(p)) =>
           LET ins == SelectSeq(QuestionFragment(p), IsGroupInput)
               ty == IF SpecAt(p).type = "single_choice" THEN "radio" ELSE "checkbox"
           IN /\ Len(ins) = Len(SpecAt(p).answers)
                              + (IF SpecAt(p).custom_answer THEN 1 ELSE 0)
              /\ \A k \in 1..Len(ins) : ins[k].name = QId(p) /\ ins[k].type = ty
    /\ LET named == UNION {{<<p, t.name>> : t \in Range(QuestionFragment(p))} :
                             p \in Positions(form)}
       IN \A a, b \in named : (a[2] # "" /\ a[2] = b[2]) => a[1] = b[1]

C5_Witness ==
  /\ pc = "done"
  /\ \E p1, p2 \in Positions(form) :
       /\ p1 # p2
       /\ SpecAt(p1).type = "single_choice" /\ SpecAt(p1).custom_answer
       /\ SpecAt(p2).type = "multiple_choice" /\ SpecAt(p2).custom_answer
       /\ Len(SelectSeq(QuestionFragment(p1), IsGroupInput)) = MaxAnswers + 1

\* C6: the free-text field "<id>-t" of a choice question with custom_answer
\* is bound to the element "<id>-c", which is the id of exactly one element of
\* the document: the extra input of the same question.
C6_CustomBinding ==
  pc = "done" =>
    \A p \in Positions(form) :
      LET fr == QuestionFragment(p)
      IN /\ (IsChoice(SpecAt(p)) /\ SpecAt(p).custom_answer) =>
              \E i \in 1..Len(fr) :
                fr[i].id = QId(p) \o "-t" /\ fr[i].target = QId(p) \o "-c"
         /\ \A i \in 1..Len(fr) :
              fr[i].target # "" =>
                /\ Cardinality({j \in 1..Len(html) : html[j].id = fr[i].target}) = 1
                /\ \E j \in 1..Len(fr) :
                     fr[j].id = fr[i].target /\ IsGroupInput(fr[j])

C6_Witness ==
  /\ pc = "done"
  /\ Cardinality({i \in 1..Len(html) : html[i].target # ""}) >= 2
  /\ \E p \in Positions(form) : SpecAt(p).type = "text"

\* C7: the child of parent p at index i is p, "-" and the decimal index
\* ("i-2", 1 gives "i-2-1"); sibling indices i # j give distinct children,
\* for groups under the root and for questions under a group.
C7_ChildIds ==
  /\ pc = "done" =>
       /\ Cardinality({ChildId(prefix, i) : i \in 0..MaxIndex}) = MaxIndex + 1
       /\ \A g \in 1..Len(form.groups) :
            Cardinality({ChildId(ChildId(prefix, g - 1), i) : i \in 0..MaxIndex})
              = MaxIndex + 1
  /\ pc = "done" =>
       \A p \in Positions(form) :
         SpecAt(p).type = "text" =>
           /\ QuestionFragment(p)[1].id = ChildId(ChildId(prefix, p[1] - 1), p[2] - 1)
           /\ (prefix = "i-2" /\ p = <<1, 2>>) => QuestionFragment(p)[1].id = "i-2-0-1"
           /\ (prefix = "i" /\ p = <<2, 1>>) => QuestionFragment(p)[1].id = "i-1-0"

C7_Witness ==
  /\ pc = "done"
  /\ prefix = "i-2"
  /\ Len(form.groups) = 2
  /\ Len(form.groups[1].questions) = 2
  /\ SpecAt(<<1, 2>>).type = "text"
  /\ SpecAt(<<1, 1>>).type = "text"

\* C8: two render calls on structurally equal QuestionType values with the
\* same identifier return the same string, whatever the order in which each
\* value's description mapping stores its entries.
C8_Deterministic ==
  (qpc = "done" /\ qpcB = "done" /\ StructEq(qt, qtB)) => frag = fragB

C8_Witness ==
  /\ qpc = "done" /\ qpcB = "done"
  /\ qt.type = "discrete_numeric"
  /\ qt.num_descriptions # qtB.num_descriptions
  /\ qt.bounds = <<-MaxVal, MaxVal>>
  /\ \E i \in 1..Len(frag) : frag[i].text = "-1 (NOPE!)"

(***************************************************************************)
(* content is exactly the fragments in order with sep between consecutive  *)
(* ones: stated by the position of every fragment and separator.           *)
(***************************************************************************)
RECURSIVE Offset(_, _)
Offset(frags, k) ==
  IF k = 1 THEN 0 ELSE Offset(frags, k - 1) + Len(frags[k - 1]) + 1

IsJoined(content, frags, sep) ==
  LET n == Len(frags)
  IN /\ n = 0 => content = <<>>
     /\ n > 0 => Len(content) = Offset(frags, n) + Len(frags[n])
     /\ \A k \in 1..n :
          /\ SubSeq(content, Offset(frags, k) + 1, Offset(frags, k) + Len(frags[k]))
               = frags[k]
          /\ k < n => content[Offset(frags, k) + Len(frags[k]) + 1] = sep

\* C9: the content of a Form is its n groups' fragments, and the content of a
\* QuestionSet its n questions' fragments, the k-th rendered with "<id>-k", in
\* order, with n-1 separators between them and none before or after; with no
\* groups the document is the wrapper with title and description only.
C9_Concatenation ==
  pc = "done" =>
    LET gfrags == [g \in 1..Len(form.groups) |->
                     QuestionSetRender(form.groups[g],
                                       prefix \o "-" \o Dec(g - 1))]
    IN /\ Len(html) >= 5
       /\ html[2] = Elem("h1", form.title)
       /\ html[3] = Elem("p", form.description)
       /\ html[4] = Raw("<div class=\"content\"><pre>")
       /\ html[Len(html)] = Raw("</pre></div></body></html>")
       /\ IsJoined(SubSeq(html, 5, Len(html) - 1), gfrags, Raw("\n"))
       /\ Len(form.groups) = 0 => Len(html) = 5
       /\ \A g \in 1..Len(form.groups) :
            LET gid == prefix \o "-" \o Dec(g - 1)
                qs == form.groups[g].questions
                qfrags == [q \in 1..Len(qs) |->
                             QuestionRender(qs[q], gid \o "-" \o Dec(q - 1))]
            IN /\ gfrags[g][3] = Raw("<form>")
               /\ gfrags[g][Len(gfrags[g])] = Raw("</form>")
               /\ IsJoined(SubSeq(gfrags[g], 4, Len(gfrags[g]) - 1), qfrags,
                           Raw("\n</br>\n"))

C9_Witness ==
  /\ pc = "done"
  /\ Len(form.groups) = 2
  /\ Len(form.groups[1].questions) = 2
  /\ Len(form.groups[2].questions) = 0
  /\ Cardinality({i \in 1..Len(html) : html[i] = Raw("\n</br>\n")}) = 1

\* C10: for i8 bounds min <= max, up to max = 127 and min = -128, the
\* enumeration emits the values of [min, max] in order, each once, never more
\* than max - min + 1 of them, and ends after the last one.
C10_RangeTerminates ==
  (rpc # "idle" /\ lo <= hi) =>
    /\ Len(emitted) <= hi - lo + 1
    /\ \A k \in 1..Len(emitted) : emitted[k] = lo + k - 1
    /\ Len(emitted) = hi - lo + 1 => ~RangeNext(iter).some
    /\ rpc = "done" => Len(emitted) = hi - lo + 1

C10_Witness ==
  /\ rpc = "done"
  /\ lo = I8Min
  /\ hi = I8Max
  /\ Len(emitted) = 256

====
